---- MODULE Spec2Model ----
(***************************************************************************)
(* Model of the n-body symplectic integrator (src/nbody.cpp) and of the    *)
(* pairwise_combinations range it iterates with (src/utility.h).           *)
(*                                                                         *)
(* Two specifications share the definitions of the iterator:               *)
(*   SpecPairs  a range-for traversal of pairwise_combinations over a      *)
(*              sequence of n elements;                                    *)
(*   Spec       a solar_system: construction, then advance(dt) calls, each *)
(*              unfolded into its kick loop and its drift loop.            *)
(*                                                                         *)
(* Positions of the underlying sequence are numbered 0 .. n-1, and n is    *)
(* the past-the-end position.  A double is modelled as an exact rational   *)
(* <<num, den>> in lowest terms with den > 0; den = 0 encodes the IEEE     *)
(* specials: <<1,0>> = +Inf, <<-1,0>> = -Inf, <<0,0>> = NaN.  Rounding and *)
(* the sign of zero are not modelled.                                      *)
(***************************************************************************)
EXTENDS Integers, Sequences, FiniteSets, TLC

VARIABLES
    n,          \* number of elements of the underlying sequence (bodies)
    pc,         \* position of the running code
    it,         \* the range-for's pairwise_combinations iterator
    yielded,    \* pairs dereferenced by the running traversal, in order
    oob,        \* number of dereferences outside 0 .. n-1 so far
    bodies,     \* solar_system::bodies, a function 0 .. n-1 -> body
    dt,         \* argument of the running advance(dt) call
    driftIdx,   \* position of the drift loop of advance
    steps,      \* completed advance calls
    kicks,      \* per (left, right): body::correct calls so far
    drifts,     \* per body: body::advance calls so far
    startPos,   \* per body: position at the start of the running advance call
    written,    \* per body: velocity last written by the constructor or correct
    stepCorrects, \* body::correct calls of the running advance call
    stepAdvances, \* body::advance calls of the running advance call
    degenerate  \* TRUE once correct was applied to two bodies at the same position

vars == <<n, pc, it, yielded, oob, bodies, dt, driftIdx, steps, kicks, drifts,
          startPos, written, stepCorrects, stepAdvances, degenerate>>

(***************************************************************************)
(* Bounds of the model.                                                    *)
(***************************************************************************)
MaxLen == 7      \* longest sequence traversed under SpecPairs
MaxBodies == 3   \* largest solar_system under Spec
MaxSteps == 2    \* advance calls per run under Spec
MaxOob == 2      \* positions past the end that are still mapped memory
MaxMag == 12     \* advance is explored from states whose coordinates have
                 \* numerator and denominator of at most this magnitude

(***************************************************************************)
(* double arithmetic, exact.                                               *)
(***************************************************************************)
Abs(x) == IF x < 0 THEN -x ELSE x

Sign(x) == IF x < 0 THEN -1 ELSE IF x > 0 THEN 1 ELSE 0

RECURSIVE GCD(_, _)
GCD(a, b) == IF b = 0 THEN a ELSE GCD(b, a % b)

\* the double num/den, in lowest terms
Rat(num, den) ==
    IF den = 0 THEN <<Sign(num), 0>>
    ELSE LET s == Sign(den)
             g == GCD(Abs(num), Abs(den))
         IN  <<(s * num) \div g, (s * den) \div g>>

Zero == <<0, 1>>
NaN == <<0, 0>>

IsNaN(a) == a = NaN
IsFinite(a) == a[2] # 0

Neg(a) == <<-a[1], a[2]>>

Add(a, b) ==
    IF a[2] = 0 \/ b[2] = 0
    THEN IF IsNaN(a) \/ IsNaN(b) THEN NaN
         ELSE IF a[2] = 0 /\ b[2] = 0 THEN (IF a = b THEN a ELSE NaN)
         ELSE IF a[2] = 0 THEN a ELSE b
    ELSE LET g == GCD(a[2], b[2])
         IN  Rat(a[1] * (b[2] \div g) + b[1] * (a[2] \div g), (a[2] \div g) * b[2])

Sub(a, b) == Add(a, Neg(b))

Mul(a, b) ==
    IF a[2] = 0 \/ b[2] = 0 THEN <<Sign(a[1]) * Sign(b[1]), 0>>
    ELSE LET g1 == GCD(Abs(a[1]), b[2])
             g2 == GCD(Abs(b[1]), a[2])
         IN  <<(a[1] \div g1) * (b[1] \div g2), (a[2] \div g2) * (b[2] \div g1)>>

Recip(a) == IF a[1] < 0 THEN <<-a[2], -a[1]>> ELSE <<a[2], a[1]>>

Div(a, b) == Mul(a, Recip(b))

RECURSIVE ISqrtIter(_, _)
ISqrtIter(m, x) ==
    LET y == (x + m \div x) \div 2
    IN  IF y >= x THEN x ELSE ISqrtIter(m, y)

ISqrt(m) == IF m < 2 THEN m ELSE ISqrtIter(m, m)

\* std::sqrt; exact on the squares of rationals, which is all the model feeds it
Sqrt(a) == IF a[1] < 0 THEN NaN ELSE <<ISqrt(a[1]), ISqrt(a[2])>>

(***************************************************************************)
(* vector3d                                                                *)
(***************************************************************************)
ZeroVec == <<Zero, Zero, Zero>>

VAdd(u, v) == <<Add(u[1], v[1]), Add(u[2], v[2]), Add(u[3], v[3])>>

VSub(u, v) == <<Sub(u[1], v[1]), Sub(u[2], v[2]), Sub(u[3], v[3])>>

VScale(v, f) == <<Mul(v[1], f), Mul(v[2], f), Mul(v[3], f)>>

VDiv(v, f) == <<Div(v[1], f), Div(v[2], f), Div(v[3], f)>>

SquaredNorm(v) == Add(Add(Mul(v[1], v[1]), Mul(v[2], v[2])), Mul(v[3], v[3]))

VFinite(v) == IsFinite(v[1]) /\ IsFinite(v[2]) /\ IsFinite(v[3])

(***************************************************************************)
(* pairwise_combinations_class::iterator                                   *)
(***************************************************************************)
\* iterator(begin, end): current starts one past begin
IterCtor(b, e) == [begin |-> b, current |-> b + 1, end |-> e]

\* operator*: the two positions the yielded references point into
IterDeref(i) == <<i.begin, i.current>>

\* operator++: begin moves ahead by one when current reached end
IterIncr(i) ==
    LET c == i.current + 1
    IN  IF c = i.end
        THEN [begin |-> i.begin + 1, current |-> i.begin + 2, end |-> i.end]
        ELSE [i EXCEPT !.current = c]

\* operator!=: ignores its argument, the iterator end() returns, whose
\* positions are never read
IterNeq(i) == i.begin + 1 # i.end

\* a mutant of begin(): a later traversal resumes the iterator of the earlier one
RangeBeginResume(len) == IF steps = 0 THEN IterCtor(0, len) ELSE it

\* pairwise_combinations_class::begin() over a sequence of len elements
RangeBegin(len) == IterCtor(0, len)

\* both positions of a dereference lie inside the sequence
InRange(i, len) == i.begin < len /\ i.current < len

(***************************************************************************)
(* body                                                                    *)
(***************************************************************************)
\* body::relative_position
RelativePosition(self, other) == VSub(self.position, other.position)

\* body::momentum
BodyMomentum(b) == VScale(b.velocity, b.mass)

\* a mutant of body::advance: the drift is added to the velocity as well
BodyAdvanceTouchesVelocity(b, d) ==
    [b EXCEPT !.position = VAdd(b.position, VScale(b.velocity, d)),
              !.velocity = VAdd(b.velocity, VScale(b.velocity, d))]

\* body::advance
BodyAdvance(b, d) == [b EXCEPT !.position = VAdd(b.position, VScale(b.velocity, d))]

\* a mutant of body::adjust_momentum: the momentum is not divided by the mass
AdjustMomentumNoMass(b, p) == [b EXCEPT !.velocity = VSub(b.velocity, p)]

\* body::adjust_momentum
AdjustMomentum(b, p) == [b EXCEPT !.velocity = VSub(b.velocity, VDiv(p, b.mass))]

\* the two velocity kicks of body::correct, from the positions it is given
Correction(self, other, d) ==
    LET dx == RelativePosition(self, other)
        distance == SquaredNorm(dx)
    IN  Div(d, Mul(distance, Sqrt(distance)))

\* a mutant of body::correct: the kick of other is scaled by other's own mass
CorrectOwnMass(self, other, d) ==
    LET dx == RelativePosition(self, other)
        correction == Correction(self, other, d)
    IN  << [self EXCEPT !.velocity = VSub(self.velocity, VScale(VScale(dx, other.mass), correction))],
           [other EXCEPT !.velocity = VAdd(other.velocity, VScale(VScale(dx, other.mass), correction))] >>

\* a mutant of body::correct: the kicked body is drifted at once
CorrectThenDrift(self, other, d) ==
    LET dx == RelativePosition(self, other)
        correction == Correction(self, other, d)
        v == VSub(self.velocity, VScale(VScale(dx, other.mass), correction))
    IN  << [self EXCEPT !.velocity = v, !.position = VAdd(self.position, VScale(v, d))],
           [other EXCEPT !.velocity = VAdd(other.velocity, VScale(VScale(dx, self.mass), correction))] >>

\* body::correct: <<self, other>> after the call
Correct(self, other, d) ==
    LET dx == RelativePosition(self, other)
        correction == Correction(self, other, d)
    IN  << [self EXCEPT !.velocity = VSub(self.velocity, VScale(VScale(dx, other.mass), correction))],
           [other EXCEPT !.velocity = VAdd(other.velocity, VScale(VScale(dx, self.mass), correction))] >>

\* the two bodies are at the same position (distance 0 in body::correct)
Coincident(a, b) == a.position = b.position

(***************************************************************************)
(* solar_system                                                            *)
(***************************************************************************)
RECURSIVE MomentumUpTo(_, _)
MomentumUpTo(bs, k) ==
    IF k = 0 THEN ZeroVec ELSE VAdd(MomentumUpTo(bs, k - 1), BodyMomentum(bs[k - 1]))

\* solar_system::momentum over len bodies
SystemMomentum(bs, len) == MomentumUpTo(bs, len)

\* a mutant of the structured binding: left and right are copies of the bodies
WriteBackToCopies(bs, l, r, res) == bs

\* auto [left, right] = *it binds references into the storage: what correct
\* wrote to left and right is what the storage holds
WriteBack(bs, l, r, res) == [bs EXCEPT ![l] = res[1], ![r] = res[2]]

(***************************************************************************)
(* Inputs.  Every body of a run lies on one line through the origin, with  *)
(* its velocity along the line, so that every distance is rational; no two *)
(* bodies are constructed at the same position.                            *)
(***************************************************************************)
R(k) == <<k, 1>>

\* directions of the line; their norms are 1 and 3
Dirs == { <<1, 0, 0>>, <<1, 2, 2>> }

\* <<position, velocity, mass>> of a body, the first two along the line
Configs ==
    { <<-1, 1, 2>>, <<0, 0, 2>>, <<0, -1, 1>>, <<1, -1, 1>>, <<1, 0, 2>>,
      <<1, 1, 2>>, <<2, 0, 1>>, <<2, -1, 2>>, <<2, 1, 1>>, <<3, 0, 1>> }

Along(u, k) == << R(u[1] * k), R(u[2] * k), R(u[3] * k) >>

\* body{x, v, m}
MakeBody(u, c) == [position |-> Along(u, c[1]), velocity |-> Along(u, c[2]), mass |-> R(c[3])]

\* arguments of advance
Dts == { R(1), R(-1), R(2) }

Small(a) == Abs(a[1]) <= MaxMag /\ a[2] <= MaxMag

Representable(bs) ==
    \A i \in DOMAIN bs : \A k \in 1..3 :
        Small(bs[i].position[k]) /\ Small(bs[i].velocity[k])

NoIter == [begin |-> 0, current |-> 0, end |-> 0]

Indices == 0 .. n - 1

(***************************************************************************)
(* SpecPairs: for (auto [l, r] : pairwise_combinations(seq)) over a        *)
(* sequence of n elements.                                                 *)
(***************************************************************************)
SystemIdle ==
    /\ bodies = << >> /\ dt = Zero /\ driftIdx = 0 /\ steps = 0
    /\ kicks = << >> /\ drifts = << >> /\ startPos = << >> /\ written = << >>
    /\ stepCorrects = 0 /\ stepAdvances = 0 /\ degenerate = FALSE

SystemUnchanged ==
    UNCHANGED <<bodies, dt, driftIdx, steps, kicks, drifts, startPos, written,
                stepCorrects, stepAdvances, degenerate>>

InitPairs ==
    /\ n \in 0 .. MaxLen
    /\ pc = "begin"
    /\ it = NoIter
    /\ yielded = << >>
    /\ oob = 0
    /\ SystemIdle

\* __begin = range.begin()
PBegin ==
    /\ pc = "begin"
    /\ it' = RangeBegin(n)
    /\ pc' = "test"
    /\ UNCHANGED <<n, yielded, oob>>
    /\ SystemUnchanged

\* __begin != __end holds: the loop body runs
PTestMore ==
    /\ pc = "test"
    /\ IterNeq(it)
    /\ pc' = "body"
    /\ UNCHANGED <<n, it, yielded, oob>>
    /\ SystemUnchanged

\* __begin != __end fails: the loop is left
PTestDone ==
    /\ pc = "test"
    /\ ~IterNeq(it)
    /\ pc' = "done"
    /\ UNCHANGED <<n, it, yielded, oob>>
    /\ SystemUnchanged

\* auto [l, r] = *__begin, both positions inside the sequence
PDeref ==
    /\ pc = "body"
    /\ InRange(it, n)
    /\ yielded' = Append(yielded, IterDeref(it))
    /\ pc' = "incr"
    /\ UNCHANGED <<n, it, oob>>
    /\ SystemUnchanged

\* *__begin reads past the end of the sequence: undefined behaviour.  While
\* the positions are mapped memory the read returns garbage and the loop goes on
PDerefOobGarbage ==
    /\ pc = "body"
    /\ ~InRange(it, n)
    /\ it.current < n + MaxOob
    /\ yielded' = Append(yielded, IterDeref(it))
    /\ oob' = oob + 1
    /\ pc' = "incr"
    /\ UNCHANGED <<n, it>>
    /\ SystemUnchanged

\* ... or the read traps
PDerefOobTrap ==
    /\ pc = "body"
    /\ ~InRange(it, n)
    /\ yielded' = Append(yielded, IterDeref(it))
    /\ oob' = oob + 1
    /\ pc' = "crashed"
    /\ UNCHANGED <<n, it>>
    /\ SystemUnchanged

\* ++__begin
PIncr ==
    /\ pc = "incr"
    /\ it' = IterIncr(it)
    /\ pc' = "test"
    /\ UNCHANGED <<n, yielded, oob>>
    /\ SystemUnchanged

NextPairs ==
    \/ PBegin
    \/ PTestMore
    \/ PTestDone
    \/ PDeref
    \/ PDerefOobGarbage
    \/ PDerefOobTrap
    \/ PIncr

SpecPairs == InitPairs /\ [][NextPairs]_vars

(***************************************************************************)
(* Spec: a solar_system of n bodies.  The initial state is the argument    *)
(* list of the constructor; Construct is the constructor.                  *)
(***************************************************************************)
Positions(bs) == [i \in DOMAIN bs |-> bs[i].position]

Velocities(bs) == [i \in DOMAIN bs |-> bs[i].velocity]

Init ==
    /\ n \in 0 .. MaxBodies
    /\ \E u \in Dirs : bodies \in [0 .. n - 1 -> { MakeBody(u, c) : c \in Configs }]
    /\ \A i, j \in 0 .. n - 1 : i # j => ~Coincident(bodies[i], bodies[j])
    /\ pc = "new"
    /\ it = NoIter
    /\ yielded = << >>
    /\ oob = 0
    /\ dt = Zero
    /\ driftIdx = 0
    /\ steps = 0
    /\ kicks = [p \in (0 .. n - 1) \X (0 .. n - 1) |-> 0]
    /\ drifts = [i \in 0 .. n - 1 |-> 0]
    /\ startPos = Positions(bodies)
    /\ written = Velocities(bodies)
    /\ stepCorrects = 0
    /\ stepAdvances = 0
    /\ degenerate = FALSE

\* solar_system(args...): bodies[0].adjust_momentum(momentum())
Construct ==
    /\ pc = "new"
    /\ n >= 1
    /\ bodies' = [bodies EXCEPT ![0] = AdjustMomentum(bodies[0], SystemMomentum(bodies, n))]
    /\ written' = Velocities(bodies')
    /\ pc' = "idle"
    /\ UNCHANGED <<n, it, yielded, oob, dt, driftIdx, steps, kicks, drifts, startPos,
                   stepCorrects, stepAdvances, degenerate>>

\* solar_system() of no bodies: bodies[0] is outside the container, undefined
\* behaviour.  The write lands in memory that is no body, or it traps
ConstructOobGarbage ==
    /\ pc = "new"
    /\ n = 0
    /\ oob' = oob + 1
    /\ pc' = "idle"
    /\ UNCHANGED <<n, it, yielded, bodies, dt, driftIdx, steps, kicks, drifts, startPos,
                   written, stepCorrects, stepAdvances, degenerate>>

ConstructOobTrap ==
    /\ pc = "new"
    /\ n = 0
    /\ oob' = oob + 1
    /\ pc' = "crashed"
    /\ UNCHANGED <<n, it, yielded, bodies, dt, driftIdx, steps, kicks, drifts, startPos,
                   written, stepCorrects, stepAdvances, degenerate>>

\* advance(d) is called; the kick loop takes pairwise_combinations(bodies).begin()
AdvanceBegin ==
    /\ pc = "idle"
    /\ steps < MaxSteps
    /\ Representable(bodies)
    /\ \E d \in Dts : dt' = d
    /\ it' = RangeBegin(n)
    /\ yielded' = << >>
    /\ startPos' = Positions(bodies)
    /\ stepCorrects' = 0
    /\ stepAdvances' = 0
    /\ pc' = "kick_test"
    /\ UNCHANGED <<n, oob, bodies, driftIdx, steps, kicks, drifts, written, degenerate>>

\* the kick loop's __begin != __end holds
KickTestMore ==
    /\ pc = "kick_test"
    /\ IterNeq(it)
    /\ pc' = "kick_body"
    /\ UNCHANGED <<n, it, yielded, oob, bodies, dt, driftIdx, steps, kicks, drifts,
                   startPos, written, stepCorrects, stepAdvances, degenerate>>

\* the kick loop's __begin != __end fails: the drift loop starts
KickTestDone ==
    /\ pc = "kick_test"
    /\ ~IterNeq(it)
    /\ driftIdx' = 0
    /\ pc' = "drift"
    /\ UNCHANGED <<n, it, yielded, oob, bodies, dt, steps, kicks, drifts,
                   startPos, written, stepCorrects, stepAdvances, degenerate>>

\* auto [left, right] = *__begin; left.correct(right, dt)
KickBody ==
    /\ pc = "kick_body"
    /\ InRange(it, n)
    /\ LET l == IterDeref(it)[1]
           r == IterDeref(it)[2]
           res == Correct(bodies[l], bodies[r], dt)
       IN  /\ bodies' = WriteBack(bodies, l, r, res)
           /\ written' = [written EXCEPT ![l] = res[1].velocity, ![r] = res[2].velocity]
           /\ kicks' = [kicks EXCEPT ![<<l, r>>] = @ + 1]
           /\ degenerate' = (degenerate \/ Coincident(bodies[l], bodies[r]))
    /\ yielded' = Append(yielded, IterDeref(it))
    /\ stepCorrects' = stepCorrects + 1
    /\ pc' = "kick_incr"
    /\ UNCHANGED <<n, it, oob, dt, driftIdx, steps, drifts, startPos, stepAdvances>>

\* *__begin past the end of bodies: correct runs on memory that is no body
KickBodyOobGarbage ==
    /\ pc = "kick_body"
    /\ ~InRange(it, n)
    /\ it.current < n + MaxOob
    /\ yielded' = Append(yielded, IterDeref(it))
    /\ stepCorrects' = stepCorrects + 1
    /\ oob' = oob + 1
    /\ pc' = "kick_incr"
    /\ UNCHANGED <<n, it, bodies, dt, driftIdx, steps, kicks, drifts, startPos, written,
                   stepAdvances, degenerate>>

\* ... or the access traps
KickBodyOobTrap ==
    /\ pc = "kick_body"
    /\ ~InRange(it, n)
    /\ yielded' = Append(yielded, IterDeref(it))
    /\ stepCorrects' = stepCorrects + 1
    /\ oob' = oob + 1
    /\ pc' = "crashed"
    /\ UNCHANGED <<n, it, bodies, dt, driftIdx, steps, kicks, drifts, startPos, written,
                   stepAdvances, degenerate>>

\* the kick loop's ++__begin
KickIncr ==
    /\ pc = "kick_incr"
    /\ it' = IterIncr(it)
    /\ pc' = "kick_test"
    /\ UNCHANGED <<n, yielded, oob, bodies, dt, driftIdx, steps, kicks, drifts,
                   startPos, written, stepCorrects, stepAdvances, degenerate>>

\* for (auto& body : bodies) body.advance(dt), one body
DriftBody ==
    /\ pc = "drift"
    /\ driftIdx < n
    /\ bodies' = [bodies EXCEPT ![driftIdx] = BodyAdvance(bodies[driftIdx], dt)]
    /\ drifts' = [drifts EXCEPT ![driftIdx] = @ + 1]
    /\ stepAdvances' = stepAdvances + 1
    /\ driftIdx' = driftIdx + 1
    /\ UNCHANGED <<n, pc, it, yielded, oob, dt, steps, kicks, startPos, written,
                   stepCorrects, degenerate>>

\* the drift loop ends and advance returns
DriftDone ==
    /\ pc = "drift"
    /\ driftIdx = n
    /\ steps' = steps + 1
    /\ pc' = "idle"
    /\ UNCHANGED <<n, it, yielded, oob, bodies, dt, driftIdx, kicks, drifts, startPos,
                   written, stepCorrects, stepAdvances, degenerate>>

Next ==
    \/ Construct
    \/ ConstructOobGarbage
    \/ ConstructOobTrap
    \/ AdvanceBegin
    \/ KickTestMore
    \/ KickTestDone
    \/ KickBody
    \/ KickBodyOobGarbage
    \/ KickBodyOobTrap
    \/ KickIncr
    \/ DriftBody
    \/ DriftDone

Spec == Init /\ [][Next]_vars

(***************************************************************************)
(* Properties.                                                             *)
(***************************************************************************)
Choose2(k) == (k * (k - 1)) \div 2

\* the pairs <<i, i+1>>, ..., <<i, len-1>>
LexRow(i, len) == [j \in 1 .. len - 1 - i |-> <<i, i + j>>]

RECURSIVE LexFrom(_, _)
LexFrom(i, len) == IF i + 1 >= len THEN << >> ELSE LexRow(i, len) \o LexFrom(i + 1, len)

\* the pairs (i, j), i < j < len, in lexicographic order
LexPairs(len) == LexFrom(0, len)

VNeg(v) == <<Neg(v[1]), Neg(v[2]), Neg(v[3])>>

BodyFinite(b) == VFinite(b.position) /\ VFinite(b.velocity) /\ IsFinite(b.mass)

KickPhase == pc \in {"kick_test", "kick_body", "kick_incr"}

\* C1: a traversal of pairwise_combinations over n >= 0 elements yields only
\* pairs (i, j) with i < j < n, none of them twice, and C(n,2) of them once
\* it has ended; it does end (for n = 0 and n = 1 with no pair).
C1_EveryPairExactlyOnce ==
    /\ \A k \in 1 .. Len(yielded) : yielded[k][1] < yielded[k][2] /\ yielded[k][2] < n
    /\ \A k, m \in 1 .. Len(yielded) : k # m => yielded[k] # yielded[m]
    /\ Len(yielded) <= Choose2(n)
    /\ pc = "done" => Len(yielded) = Choose2(n)
    /\ pc # "crashed"

\* C3: the k-th pair yielded over a sequence of n elements is the k-th pair
\* of (0,1), ..., (0,n-1), (1,2), ..., (n-2,n-1), and no pair is yielded
\* beyond the last of them.
C3_CanonicalOrder ==
    /\ Len(yielded) <= Len(LexPairs(n))
    /\ \A k \in 1 .. Len(yielded) : yielded[k] = LexPairs(n)[k]

\* C10: whenever the traversal dereferences its iterator, the two positions
\* read satisfy 0 <= begin < current < n, and no more than C(n,2) dereferences
\* are made.
C10_DerefInsideSequence ==
    /\ pc = "body" => 0 <= it.begin /\ it.begin < it.current /\ it.current < n
    /\ oob = 0
    /\ Len(yielded) <= Choose2(n)

\* C2: while advance is in its kick loop no body::advance call of the step has
\* been made and every position is the one of the start of the step; once a
\* body::advance call of the step is made, all C(n,2) correct calls are done.
C2_KicksBeforeDrift ==
    /\ KickPhase => stepAdvances = 0 /\ Positions(bodies) = startPos
    /\ stepAdvances > 0 => stepCorrects = Choose2(n)

C2_Witness ==
    /\ pc = "kick_body" /\ steps = 1 /\ n = 3 /\ stepCorrects = 2
    /\ ~degenerate /\ Velocities(bodies) # [i \in Indices |-> ZeroVec]

\* C4 as stated: whenever a solar_system of n >= 1 bodies is constructed and
\* no advance call is running, its aggregate momentum is zero.
C4_MomentumZeroAlways ==
    (pc = "idle" /\ n >= 1) => SystemMomentum(bodies, n) = ZeroVec

\* C4 amended: whenever a solar_system of n >= 1 bodies is constructed and no
\* advance call is running, its aggregate momentum is zero, provided no kick
\* so far was applied to two bodies at the same position.
C4_MomentumZeroUnlessCoincident ==
    (pc = "idle" /\ n >= 1 /\ ~degenerate) => SystemMomentum(bodies, n) = ZeroVec

C4_Witness ==
    /\ pc = "idle" /\ steps = 2 /\ n = 3 /\ ~degenerate
    /\ \A i \in Indices : bodies[i].velocity # ZeroVec

C6_PureDriftBelowTwoBodies ==
    n <= 1 =>
        /\ pc # "crashed"
        /\ stepCorrects = 0
        /\ (pc = "idle" /\ steps >= 1) =>
              \A i \in Indices :
                  /\ bodies[i].velocity = written[i]
                  /\ bodies[i].position = VAdd(startPos[i], VScale(bodies[i].velocity, dt))

\* C7: the storage holds, for every body, the velocity correct last wrote to
\* it through a yielded pair, and the drift of a body adds that velocity
\* times dt to the position the body had at the start of the step.
C7_KicksReachStorage ==
    /\ \A i \in Indices : bodies[i].velocity = written[i]
    /\ \A i \in Indices :
          ((pc = "drift" /\ i < driftIdx) \/ (pc = "idle" /\ steps >= 1)) =>
              bodies[i].position = VAdd(startPos[i], VScale(written[i], dt))

C7_Witness ==
    /\ pc = "drift" /\ driftIdx = n /\ n = 3 /\ steps = 1 /\ ~degenerate
    /\ Positions(bodies) # startPos

\* C8: every traversal of a system of n >= 2 bodies starts at pair (0,1), and
\* after k advance calls every pair (i, j), i < j, has received k correct calls
\* (no other pair any) and every body k advance calls.
C8_EveryStepKicksEveryPair ==
    n >= 2 =>
        /\ yielded # << >> => yielded[1] = <<0, 1>>
        /\ pc = "idle" =>
              /\ \A i, j \in Indices : kicks[<<i, j>>] = (IF i < j THEN steps ELSE 0)
              /\ \A i \in Indices : drifts[i] = steps

C8_Witness == pc = "idle" /\ steps = 2 /\ n = 3 /\ ~degenerate

\* C9: no step changes a mass; the constructor changes only the velocity of
\* body 0, a correct call only the velocities of its two bodies, a
\* body::advance call only the position of its body, and no other step
\* changes a body.
C9_Frame ==
    [][ /\ \A i \in Indices : bodies'[i].mass = bodies[i].mass
        /\ pc = "new" =>
              \A i \in Indices :
                  /\ bodies'[i].position = bodies[i].position
                  /\ i # 0 => bodies'[i] = bodies[i]
        /\ pc = "kick_body" =>
              \A i \in Indices :
                  /\ bodies'[i].position = bodies[i].position
                  /\ i \notin {it.begin, it.current} => bodies'[i] = bodies[i]
        /\ pc = "drift" =>
              \A i \in Indices :
                  /\ bodies'[i].velocity = bodies[i].velocity
                  /\ i # driftIdx => bodies'[i] = bodies[i]
        /\ pc \notin {"new", "kick_body", "drift"} => bodies' = bodies ]_vars

C9_Witness ==
    /\ pc = "idle" /\ steps = 1 /\ n = 3 /\ ~degenerate
    /\ \A i \in Indices : bodies[i].position # startPos[i] /\ bodies[i].velocity # ZeroVec

====
